---- MODULE Spec2Model ----
(***************************************************************************)
(* JetNet.getData (src/jetnet/datasets/jetnet.py): loading of the per-type *)
(* raw arrays, label injection, count clamping, feature reordering,        *)
(* concatenation over the jet types and the seeded shuffle-and-split.      *)
(*                                                                         *)
(* Representation.  A numpy array is a record [some, rows]: some = FALSE   *)
(* is Python's None.  A row is a record [src, val]: val holds the row's    *)
(* numbers (for a particle row one tuple per particle), src = <<type, i>>  *)
(* names the raw example the row was read from (row i of that type's       *)
(* file) and is carried along by every array operation.  Optional or       *)
(* polymorphic Python arguments are tagged records [kind, ...].            *)
(* Fractions are integers in percent (70 is 0.7).                          *)
(***************************************************************************)
EXTENDS Integers, Sequences, FiniteSets, TLC

(* ------------------------------ bounds --------------------------------- *)
\* rows of the "g" file in the small datasets
MaxRows == 2
\* seeds are 0..MaxSeed
MaxSeed == 1
\* rows of the "g" file in the datasets of the split specification: 0..MaxLength
MaxLength == 8
\* uses of the process-wide generator by other code between two calls
MaxOtherDraws == 1

(* ------------------------- class attributes ---------------------------- *)
jet_types == <<"g", "t", "q", "w", "z">>
particle_features_order == <<"etarel", "phirel", "ptrel", "mask">>
jet_features_order == <<"type", "pt", "eta", "mass", "num_particles">>
splits == <<"train", "valid", "test", "all">>

(* --------------------------- sequence helpers -------------------------- *)
Range(s) == {s[k] : k \in DOMAIN s}

\* Python's list.index: the 0-based position of the first x in s
IndexOf(s, x) == (CHOOSE k \in DOMAIN s : s[k] = x /\ \A m \in 1..(k - 1) : s[m] # x) - 1

Min2(a, b) == IF a <= b THEN a ELSE b

RECURSIVE FlattenSeq(_)
FlattenSeq(ss) == IF ss = <<>> THEN <<>> ELSE Head(ss) \o FlattenSeq(Tail(ss))

RECURSIVE SumSeq(_)
SumSeq(s) == IF s = <<>> THEN 0 ELSE Head(s) + SumSeq(Tail(s))

None == [some |-> FALSE, rows |-> <<>>]
Some(rows) == [some |-> TRUE, rows |-> rows]

(* ------------------- argument values (tagged records) ------------------ *)
\* a Python str
Str(s) == [kind |-> "str", items |-> <<s>>]
\* a Python list of str
List(l) == [kind |-> "list", items |-> l]
\* a Python set of str; items is the order in which the set iterates
SetOf(l) == [kind |-> "set", items |-> l]
\* Python's None passed for a feature list
NoneArg == [kind |-> "none", items |-> <<>>]

(* ------------------------- the raw hdf5 files -------------------------- *)
ClassIndex(j) == IndexOf(jet_types, j)

\* the number that identifies raw example i of type j inside the stored values
ExampleId(j, i) == 1000 * ClassIndex(j) + i

\* particles per jet stored in a file of the JetNet30 / JetNet150 variant
FileParticles(use_150) == IF use_150 THEN 150 ELSE 30

\* the raw num_particles entry of example i of type j
RawCount(use_150, j, i) ==
    IF (ClassIndex(j) + i) % 2 = 1 THEN FileParticles(use_150) ELSE 3 + ClassIndex(j)

\* f["particle_features"][i]: one <<etarel, phirel, ptrel, mask>> per particle
RawParticleRow(use_150, j, i) ==
    [k \in 1..FileParticles(use_150) |->
        << 10000 * ExampleId(j, i) + 10 * k + 1,
           10000 * ExampleId(j, i) + 10 * k + 2,
           10000 * ExampleId(j, i) + 10 * k + 3,
           IF k <= RawCount(use_150, j, i) THEN 1 ELSE 0 >>]

\* f["jet_features"][i]: <<pt, eta, mass, num_particles>>
RawJetRow(use_150, j, i) ==
    << 10 * ExampleId(j, i) + 1, 10 * ExampleId(j, i) + 2, 10 * ExampleId(j, i) + 3,
       RawCount(use_150, j, i) >>

\* np.array(f["particle_features"]) of a file with n examples
ReadParticleFeatures(use_150, j, n) ==
    [i \in 1..n |-> [src |-> <<j, i>>, val |-> RawParticleRow(use_150, j, i)]]

\* np.array(f["jet_features"]) of a file with n examples
ReadJetFeatures(use_150, j, n) ==
    [i \in 1..n |-> [src |-> <<j, i>>, val |-> RawJetRow(use_150, j, i)]]

\* _zenodo_record_ids
zenodo_record_ids(key) == IF key = "150" THEN 6975117 ELSE 6975118

(* ------------------------- helpers of .utils --------------------------- *)
\* checkStrToList: a str becomes a one-element list, anything else is kept
checkStrToList(inp) == IF inp.kind = "str" THEN List(inp.items) ELSE inp

\* checkListNotEmpty: whether features of this kind were requested
checkListNotEmpty(inp) == inp.kind # "none" /\ inp.items # <<>>

\* firstNotNoneElement over (particle_data, jet_data)
firstNotNoneElement(a, b) == IF a.some THEN a ELSE b

\* checkConvertElements(jet_type, cls.jet_types): "all" resolves to every type;
\* otherwise every requested name must be a valid type, and the requested
\* set is returned in the fixed order of valid_types.
checkConvertElements(elem, valid_types) ==
    IF elem = Str("all")
    THEN [err |-> "", value |-> valid_types]
    ELSE IF \E k \in DOMAIN elem.items : elem.items[k] \notin Range(valid_types)
         THEN [err |-> "InvalidCategoryError", value |-> <<>>]
         ELSE [err |-> "",
               value |-> SelectSeq(valid_types, LAMBDA t : t \in Range(elem.items))]

\* one row's channels picked in the requested order
ReorderChannels(vec, features, features_order) ==
    [k \in DOMAIN features |-> vec[IndexOf(features_order, features[k]) + 1]]

\* getOrderedFeatures(data, features, features_order): a column permutation
\* along the last axis (ndim = 3: per particle, ndim = 2: per row); a name
\* outside features_order is an UnknownFeatureError.
getOrderedFeatures(data, features, features_order, ndim) ==
    IF \E k \in DOMAIN features : features[k] \notin Range(features_order)
    THEN [err |-> "UnknownFeatureError", data |-> <<>>]
    ELSE [err |-> "",
          data |-> [i \in DOMAIN data |->
                      [src |-> data[i].src,
                       val |-> IF ndim = 3
                               THEN [e \in DOMAIN data[i].val |->
                                       ReorderChannels(data[i].val[e], features, features_order)]
                               ELSE ReorderChannels(data[i].val, features, features_order)]]]

\* round(pct / 100 * length), halves to the even neighbour as Python's round
RoundCut(pct, length) ==
    LET q == (pct * length) \div 100
        r == (pct * length) % 100
    IN  IF 2 * r < 100 THEN q
        ELSE IF 2 * r > 100 THEN q + 1
        ELSE IF q % 2 = 0 THEN q ELSE q + 1

\* getSplitting(length, split, splits, split_fraction) -> (lcut, rcut)
getSplitting(length, split, all_splits, split_fraction) ==
    LET c0 == RoundCut(split_fraction[1], length)
        c1 == RoundCut(split_fraction[1] + split_fraction[2], length)
    IN  IF split \notin Range(all_splits)
        THEN [err |-> "InvalidSplitError", lcut |-> 0, rcut |-> 0]
        ELSE IF split = "all"
        THEN [err |-> "", lcut |-> 0, rcut |-> length]
        ELSE IF (\E k \in 1..3 : split_fraction[k] < 0) \/ SumSeq(split_fraction) > 100
        THEN [err |-> "InvalidFractionError", lcut |-> 0, rcut |-> 0]
        ELSE IF split = "train" THEN [err |-> "", lcut |-> 0, rcut |-> c0]
        ELSE IF split = "valid" THEN [err |-> "", lcut |-> c0, rcut |-> c1]
        ELSE [err |-> "", lcut |-> c1, rcut |-> length]

(* --------------------- numpy's process-wide generator ------------------ *)
\* one step of the generator
RngStep(s) == (75 * s + 74) % 65537

\* np.random.seed(seed): the generator state a seed sets
np_random_seed(seed) == RngStep(RngStep(seed + 1))

\* primes above every array length of the model, so each is invertible modulo
\* the length
Multipliers == <<1009, 2003, 3001, 4001, 5003>>

\* np.random.permutation(length) drawn from generator state s: a permutation
\* of 0..length-1 fixed by the state, and the state the generator is left in
np_random_permutation(s, n) ==
    LET s1 == RngStep(s)
        s2 == RngStep(s1)
        a  == Multipliers[(s1 % Len(Multipliers)) + 1]
    IN  [perm |-> [k \in 1..n |-> (a * (k - 1) + s2) % n], state |-> s2]

\* data[randperm]: row k of the result is row randperm[k] of data
TakeRows(data, randperm) == [k \in DOMAIN randperm |-> data[randperm[k] + 1]]

\* data[lcut:rcut]
Slice(data, lcut, rcut) == SubSeq(data, lcut + 1, Min2(rcut, Len(data)))

(* ------------------------------- state --------------------------------- *)
VARIABLES
    files,                  \* data_dir: jet type -> number of examples in its hdf5 files
    rng,                    \* state of numpy's process-wide generator
    otherDraws,             \* uses of the generator by other code since the last call
    pc,                     \* position of getData: idle, validate, load, concat, split,
                            \*   shuffle, slice, done, error
    error,                  \* the exception getData raised, "" if none
    args,                   \* the arguments getData was called with
    jet_type,               \* local jet_type after line 150
    particle_features,      \* local particle_features after line 151
    jet_features,           \* local jet_features after line 151
    use_particle_features,  \* line 152
    use_jet_features,       \* line 152
    use_150,                \* line 155
    jpos,                   \* position of the loop of line 160 in jet_type
    particle_list,          \* particle_data while it is the list of per-type arrays
    jet_list,               \* jet_data while it is the list of per-type arrays
    particle_data,          \* particle_data from line 200 on
    jet_data,               \* jet_data from line 201 on
    length,                 \* line 203
    lcut,                   \* line 206
    rcut,                   \* line 206
    randperm,               \* line 209
    ioLog,                  \* downloads and file reads of this call, in order
    layout,                 \* the examples of the concatenated arrays, in row order
    pin                     \* a finished earlier call, kept for comparison

locals == <<jet_type, particle_features, jet_features, use_particle_features,
            use_jet_features, use_150, jpos, particle_list, jet_list, particle_data,
            jet_data, length, lcut, rcut, randperm, layout>>

vars == <<files, rng, otherDraws, pc, error, args, locals, ioLog, pin>>

NoArgs == [jet_type |-> Str("all"), particle_features |-> NoneArg, jet_features |-> NoneArg,
           num_particles |-> 0, split |-> "all", split_fraction |-> <<0, 0, 0>>, seed |-> 0]

NoPin == [taken |-> FALSE, args |-> NoArgs, length |-> 0, randperm |-> <<>>, lcut |-> 0,
          rcut |-> 0, loads |-> <<>>, layout |-> <<>>, out |-> {}]

\* the frame of getData before its first statement
FreshLocals ==
    /\ jet_type = <<>>
    /\ particle_features = NoneArg
    /\ jet_features = NoneArg
    /\ use_particle_features = FALSE
    /\ use_jet_features = FALSE
    /\ use_150 = FALSE
    /\ jpos = 0
    /\ particle_list = <<>>
    /\ jet_list = <<>>
    /\ particle_data = None
    /\ jet_data = None
    /\ length = 0
    /\ lcut = 0
    /\ rcut = 0
    /\ randperm = <<>>
    /\ layout = <<>>

\* the frame of getData is discarded
ResetLocals ==
    /\ jet_type' = <<>>
    /\ particle_features' = NoneArg
    /\ jet_features' = NoneArg
    /\ use_particle_features' = FALSE
    /\ use_jet_features' = FALSE
    /\ use_150' = FALSE
    /\ jpos' = 0
    /\ particle_list' = <<>>
    /\ jet_list' = <<>>
    /\ particle_data' = None
    /\ jet_data' = None
    /\ length' = 0
    /\ lcut' = 0
    /\ rcut' = 0
    /\ randperm' = <<>>
    /\ layout' = <<>>

InitWith(Datasets) ==
    /\ files \in Datasets
    /\ rng = 0
    /\ otherDraws = 0
    /\ pc = "idle"
    /\ error = ""
    /\ args = NoArgs
    /\ FreshLocals
    /\ ioLog = <<>>
    /\ pin = NoPin

(* ------------------------------ getData -------------------------------- *)
\* lines 111-121: getData is entered with its arguments
CallWith(JetTypes, ParticleFeatures, JetFeatures, NumParticles, Splits, Fractions, Seeds) ==
    /\ pc = "idle"
    /\ \E jt \in JetTypes, pf \in ParticleFeatures, jf \in JetFeatures, np \in NumParticles,
          sp \in Splits, fr \in Fractions, sd \in Seeds :
          args' = [jet_type |-> jt, particle_features |-> pf, jet_features |-> jf,
                   num_particles |-> np, split |-> sp, split_fraction |-> fr, seed |-> sd]
    /\ pc' = "validate"
    /\ UNCHANGED <<files, rng, otherDraws, error, locals, ioLog, pin>>

\* faulty variant of ResolveJetType: the names are validated but a caller's
\* set is iterated as the caller gave it (the result of line 150 not rebound)
ResolveJetTypeNoRebind(a) ==
    LET r == checkConvertElements(a.jet_type, jet_types)
    IN  IF r.err = "" /\ a.jet_type.kind = "set" THEN [r EXCEPT !.value = a.jet_type.items] ELSE r

\* line 150: the value bound to jet_type
ResolveJetType(a) == checkConvertElements(a.jet_type, jet_types)

\* lines 150-158
Validate ==
    /\ pc = "validate"
    /\ LET r == ResolveJetType(args)
       IN  IF r.err # ""
           THEN /\ pc' = "error"
                /\ error' = r.err
                /\ UNCHANGED locals
           ELSE /\ jet_type' = r.value
                /\ particle_features' = checkStrToList(args.particle_features)
                /\ jet_features' = checkStrToList(args.jet_features)
                /\ use_particle_features' = checkListNotEmpty(checkStrToList(args.particle_features))
                /\ use_jet_features' = checkListNotEmpty(checkStrToList(args.jet_features))
                /\ use_150' = (args.num_particles > 30)
                /\ particle_list' = <<>>
                /\ jet_list' = <<>>
                /\ jpos' = 1
                /\ pc' = "load"
                /\ error' = ""
                /\ UNCHANGED <<particle_data, jet_data, length, lcut, rcut, randperm, layout>>
    /\ UNCHANGED <<files, rng, otherDraws, args, ioLog, pin>>

\* line 161: f"{j}{'150' if use_150 else ''}"
Dname(j, u150) == <<j, IF u150 THEN "150" ELSE "">>

\* lines 163-176: the download check and the read of one type's file
FileAccess(j, u150) ==
    << [op |-> "checkDownloadZenodoDataset", dname |-> Dname(j, u150),
        record_id |-> zenodo_record_ids(IF u150 THEN "150" ELSE "30")],
       [op |-> "h5py.File", dname |-> Dname(j, u150), record_id |-> 0] >>

\* line 172: np.array(f["particle_features"])[:, :num_particles]
TruncateParticles(data, num_particles) ==
    [i \in DOMAIN data |->
        [src |-> data[i].src,
         val |-> SubSeq(data[i].val, 1, Min2(num_particles, Len(data[i].val)))]]

\* faulty variant of class_index: positions counted from 1
ClassIndexOneBased(j) == IndexOf(jet_types, j) + 1

\* line 184: class_index = cls.jet_types.index(j)
class_index(j) == IndexOf(jet_types, j)

\* faulty variant of ClampTail: clamps to the particles per jet of the file
\* variant instead of the requested num_particles
ClampTailToFileSize(val, num_particles) ==
    [k \in 1..(Len(val) - 3) |-> Min2(val[3 + k], IF num_particles > 30 THEN 150 ELSE 30)]

\* line 190: np.minimum(jf[:, 3:], num_particles), one row
ClampTail(val, num_particles) ==
    [k \in 1..(Len(val) - 3) |-> Min2(val[3 + k], num_particles)]

\* lines 185-193: the class index, jf[:, :3] and the clamped rest, side by side
AddClassIndex(jf, j, num_particles) ==
    [i \in DOMAIN jf |->
        [src |-> jf[i].src,
         val |-> <<class_index(j)>> \o SubSeq(jf[i].val, 1, 3)
                    \o ClampTail(jf[i].val, num_particles)]]

\* lines 160-198: one turn of the loop over jet_type
LoadCategory ==
    /\ pc = "load"
    /\ jpos <= Len(jet_type)
    /\ LET j  == jet_type[jpos]
           pf == IF use_particle_features
                 THEN getOrderedFeatures(
                          TruncateParticles(ReadParticleFeatures(use_150, j, files[j]),
                                            args.num_particles),
                          particle_features.items, particle_features_order, 3)
                 ELSE [err |-> "", data |-> <<>>]
           jf == IF use_jet_features
                 THEN getOrderedFeatures(
                          AddClassIndex(ReadJetFeatures(use_150, j, files[j]), j,
                                        args.num_particles),
                          jet_features.items, jet_features_order, 2)
                 ELSE [err |-> "", data |-> <<>>]
           err == IF pf.err # "" THEN pf.err ELSE jf.err
       IN  /\ ioLog' = ioLog \o FileAccess(j, use_150)
           /\ IF err # ""
              THEN /\ pc' = "error"
                   /\ error' = err
                   /\ UNCHANGED <<particle_list, jet_list, jpos>>
              ELSE /\ particle_list' =
                        Append(particle_list, IF use_particle_features THEN Some(pf.data) ELSE None)
                   /\ jet_list' = Append(jet_list, IF use_jet_features THEN Some(jf.data) ELSE None)
                   /\ jpos' = jpos + 1
                   /\ pc' = IF jpos = Len(jet_type) THEN "concat" ELSE "load"
                   /\ error' = ""
    /\ UNCHANGED <<files, rng, otherDraws, args, jet_type, particle_features, jet_features,
                   use_particle_features, use_jet_features, use_150, particle_data, jet_data,
                   length, lcut, rcut, randperm, layout, pin>>

\* np.concatenate(list, axis=0)
np_concatenate(list) == Some(FlattenSeq([k \in DOMAIN list |-> list[k].rows]))

\* faulty variant of ConcatJet: guarded by use_particle_features
ConcatJetOnParticleFlag(list, use_p, use_j) == IF use_p THEN np_concatenate(list) ELSE None

\* line 201: jet_data after the loop
ConcatJet(list, use_p, use_j) == IF use_j THEN np_concatenate(list) ELSE None

\* line 200: particle_data after the loop
ConcatParticle(list, use_p, use_j) == IF use_p THEN np_concatenate(list) ELSE None

\* faulty variant of LengthOf: the length of the last type's array, as if
\* taken before the concatenation
LengthOfLastType(pd, jd, jl, pl) ==
    Len(firstNotNoneElement(pl[Len(pl)], jl[Len(jl)]).rows)

\* line 203: length = len(firstNotNoneElement(particle_data, jet_data))
LengthOf(pd, jd, jl, pl) == Len(firstNotNoneElement(pd, jd).rows)

\* lines 200-203
Concatenate ==
    /\ pc = "concat"
    /\ LET pd == ConcatParticle(particle_list, use_particle_features, use_jet_features)
           jd == ConcatJet(jet_list, use_particle_features, use_jet_features)
       IN  /\ particle_data' = pd
           /\ jet_data' = jd
           /\ IF ~pd.some /\ ~jd.some
              THEN /\ pc' = "error"
                   /\ error' = "EmptyRequestError"
                   /\ UNCHANGED <<length, layout>>
              ELSE /\ length' = LengthOf(pd, jd, jet_list, particle_list)
                   /\ layout' = [k \in DOMAIN firstNotNoneElement(pd, jd).rows |->
                                    firstNotNoneElement(pd, jd).rows[k].src]
                   /\ pc' = "split"
                   /\ error' = ""
    /\ UNCHANGED <<files, rng, otherDraws, args, jet_type, particle_features, jet_features,
                   use_particle_features, use_jet_features, use_150, jpos, particle_list,
                   jet_list, lcut, rcut, randperm, ioLog, pin>>

\* line 206: lcut, rcut = getSplitting(length, split, cls.splits, split_fraction)
Split ==
    /\ pc = "split"
    /\ LET r == getSplitting(length, args.split, splits, args.split_fraction)
       IN  IF r.err # ""
           THEN /\ pc' = "error"
                /\ error' = r.err
                /\ UNCHANGED <<lcut, rcut>>
           ELSE /\ lcut' = r.lcut
                /\ rcut' = r.rcut
                /\ pc' = "shuffle"
                /\ error' = ""
    /\ UNCHANGED <<files, rng, otherDraws, args, jet_type, particle_features, jet_features,
                   use_particle_features, use_jet_features, use_150, jpos, particle_list,
                   jet_list, particle_data, jet_data, length, randperm, layout, ioLog, pin>>

\* faulty variant of SeedGenerator: the generator is left as it was
SeedGeneratorDropped(state, seed) == state

\* line 208: np.random.seed(seed)
SeedGenerator(state, seed) == np_random_seed(seed)

\* faulty variant of ShufflePermutation: lines 208 and 209 in the other order
ShufflePermutationBeforeSeed(state, seed, n) ==
    [perm |-> np_random_permutation(state, n).perm, state |-> np_random_seed(seed)]

\* lines 208-209: the permutation drawn and the generator state left behind
ShufflePermutation(state, seed, n) == np_random_permutation(SeedGenerator(state, seed), n)

\* lines 208-209
Shuffle ==
    /\ pc = "shuffle"
    /\ LET r == ShufflePermutation(rng, args.seed, length)
       IN  /\ randperm' = r.perm
           /\ rng' = r.state
    /\ pc' = "slice"
    /\ UNCHANGED <<files, otherDraws, error, args, jet_type, particle_features, jet_features,
                   use_particle_features, use_jet_features, use_150, jpos, particle_list,
                   jet_list, particle_data, jet_data, length, lcut, rcut, layout, ioLog, pin>>

\* line 212: particle_data[randperm][lcut:rcut]
SelectParticle(data, perm, l, r) == Some(Slice(TakeRows(data.rows, perm), l, r))

\* faulty variant of SelectJet: the slice of the unpermuted array
SelectJetUnpermuted(data, perm, l, r) == Some(Slice(data.rows, l, r))

\* faulty variant of SelectJet: the slice includes row rcut
SelectJetInclusive(data, perm, l, r) == Some(Slice(TakeRows(data.rows, perm), l, r + 1))

\* line 215: jet_data[randperm][lcut:rcut]
SelectJet(data, perm, l, r) == Some(Slice(TakeRows(data.rows, perm), l, r))

\* lines 211-215
SliceData ==
    /\ pc = "slice"
    /\ particle_data' = IF use_particle_features
                        THEN SelectParticle(particle_data, randperm, lcut, rcut)
                        ELSE particle_data
    /\ jet_data' = IF use_jet_features
                   THEN SelectJet(jet_data, randperm, lcut, rcut)
                   ELSE jet_data
    /\ pc' = "done"
    /\ UNCHANGED <<files, rng, otherDraws, error, args, jet_type, particle_features,
                   jet_features, use_particle_features, use_jet_features, use_150, jpos,
                   particle_list, jet_list, length, lcut, rcut, randperm, layout, ioLog, pin>>

\* the examples of the arrays getData returns
Returned == {particle_data.rows[k].src : k \in DOMAIN particle_data.rows}
                \cup {jet_data.rows[k].src : k \in DOMAIN jet_data.rows}

\* what a finished call leaves to compare a later call with
Snapshot ==
    [taken |-> TRUE, args |-> args, length |-> length, randperm |-> randperm, lcut |-> lcut,
     rcut |-> rcut, loads |-> ioLog, layout |-> layout, out |-> Returned]

\* line 217 (or the exception leaving getData): the frame is gone
Leave ==
    /\ pc \in {"done", "error"}
    /\ pc' = "idle"
    /\ error' = ""
    /\ args' = NoArgs
    /\ ResetLocals
    /\ ioLog' = <<>>
    /\ otherDraws' = 0
    /\ UNCHANGED <<files, rng>>

Return == Leave /\ UNCHANGED pin

\* line 217, with this call kept for comparison
ReturnKeep == pc = "done" /\ Leave /\ pin' = Snapshot

\* other code of the process uses numpy's generator between two calls
OtherRandomUse ==
    /\ pc = "idle"
    /\ otherDraws < MaxOtherDraws
    /\ rng' = RngStep(rng)
    /\ otherDraws' = otherDraws + 1
    /\ UNCHANGED <<files, pc, error, args, locals, ioLog, pin>>

(* --------------------------- specifications ---------------------------- *)
JetTypeSet == Range(jet_types)

\* data_dir with MaxRows examples of "g" and one example of every other type
SmallFiles == [t \in JetTypeSet |-> IF t = "g" THEN MaxRows ELSE 1]

Init == InitWith({SmallFiles})

Call ==
    CallWith({Str("all"), Str("q"), SetOf(<<"t", "g">>), Str("x")},
             {List(particle_features_order), NoneArg, List(<<>>), List(<<"mask", "etarel">>),
              Str("ptrel"), List(<<"ptrel", "energy">>)},
             {List(jet_features_order), NoneArg, List(<<"num_particles", "type">>),
              Str("mass"), List(<<"pt", "charge">>)},
             {1, 30, 31, 150},
             {"train", "valid", "test", "all", "dev"},
             {<<70, 15, 15>>, <<60, 50, 0>>},
             0..MaxSeed)

Next ==
    \/ Call
    \/ Validate
    \/ LoadCategory
    \/ Concatenate
    \/ Split
    \/ Shuffle
    \/ SliceData

Spec == Init /\ [][Next]_vars

\* data_dir of the scenario: 100 examples of "g" and 50 of "t"
ScenarioFiles == [t \in JetTypeSet |-> IF t = "g" THEN 100 ELSE IF t = "t" THEN 50 ELSE 1]

\* fractions in percent, valid and invalid triples among them
FractionValues == {-10, 0, 15, 30, 70, 100}

InitSplit ==
    InitWith({[t \in JetTypeSet |-> IF t = "g" THEN n ELSE 1] : n \in 0..MaxLength}
                \cup {ScenarioFiles})

CallSplit ==
    CallWith({Str("g"), SetOf(<<"t", "g">>)},
             {NoneArg},
             {List(jet_features_order)},
             {30},
             {"train", "valid", "test", "all", "dev"},
             FractionValues \X FractionValues \X FractionValues,
             {42})

NextSplit ==
    \/ CallSplit
    \/ Validate
    \/ LoadCategory
    \/ Concatenate
    \/ Split
    \/ Shuffle
    \/ SliceData

\* one call of getData over files of many sizes and a grid of fractions
SpecSplit == InitSplit /\ [][NextSplit]_vars

CallPair ==
    CallWith({Str("all"), SetOf(<<"t", "g">>), SetOf(<<"g", "t">>)},
             {Str("mask")},
             {List(<<"type", "pt">>)},
             {1},
             {"train", "valid", "test"},
             {<<70, 15, 15>>, <<50, 25, 25>>},
             0..MaxSeed)

NextPair ==
    \/ CallPair
    \/ Validate
    \/ LoadCategory
    \/ Concatenate
    \/ Split
    \/ Shuffle
    \/ SliceData
    \/ Return
    \/ ReturnKeep
    \/ OtherRandomUse

\* calls of getData one after the other in one process, an earlier one kept
SpecPair == Init /\ [][NextPair]_vars

(* ------------------------------ properties ----------------------------- *)
\* the ordinal of a jet type in (g, t, q, w, z)
Ordinal(t) == CASE t = "g" -> 0 [] t = "t" -> 1 [] t = "q" -> 2 [] t = "w" -> 3 [] t = "z" -> 4

\* whether the caller asked for features of a kind
Requested(a) == a.kind # "none" /\ a.items # <<>>

\* the jet types a call asks for
RequestedTypes(a) == IF a.jet_type = Str("all") THEN JetTypeSet ELSE Range(a.jet_type.items)

SameExamples(a, b) ==
    /\ Len(a.rows) = Len(b.rows)
    /\ \A i \in DOMAIN a.rows : a.rows[i].src = b.rows[i].src

\* C3: whenever the particle array and the jet array are both present, row i
\* of the one and row i of the other come from the same raw example of the
\* same jet type: in the per-type arrays (after truncation), after
\* concatenation, and after the permutation and the split slice.
C3_RowAlignment ==
    /\ (particle_data.some /\ jet_data.some) => SameExamples(particle_data, jet_data)
    /\ \A k \in DOMAIN particle_list :
          (particle_list[k].some /\ jet_list[k].some)
              => SameExamples(particle_list[k], jet_list[k])

C3_Witness ==
    /\ pc = "done"
    /\ particle_data.some /\ jet_data.some
    /\ args.num_particles = 1
    /\ Len(jet_type) > 1
    /\ Len(particle_data.rows) >= 2
    /\ rcut < length
    /\ \E k \in DOMAIN randperm : randperm[k] # k - 1

\* every jet row of the state: of the per-type arrays and of jet_data
JetRows == {jet_data.rows[i] : i \in DOMAIN jet_data.rows}
              \cup UNION {{jet_list[k].rows[i] : i \in DOMAIN jet_list[k].rows} :
                             k \in DOMAIN jet_list}

\* C5: in every jet row, before and after concatenation, permutation and
\* slicing, the "type" channel holds the ordinal of the row's jet type in
\* (g, t, q, w, z).
C5_LabelIsOrdinal ==
    \A row \in JetRows :
        \A k \in DOMAIN jet_features.items :
            jet_features.items[k] = "type" => row.val[k] = Ordinal(row.src[1])

C5_Witness ==
    /\ pc = "done"
    /\ jet_features.items = <<"num_particles", "type">>
    /\ \E i \in DOMAIN jet_data.rows :
          jet_data.rows[i].src[1] = "z" /\ jet_data.rows[i].val[2] = 4
    /\ \E i \in DOMAIN jet_data.rows :
          jet_data.rows[i].src[1] = "g" /\ jet_data.rows[i].val[2] = 0

\* C6: in every jet row the "num_particles" channel is at most the requested
\* num_particles, and the pt, eta and mass channels hold the raw values of
\* the row's example.
C6_CountClampedRestVerbatim ==
    \A row \in JetRows :
        \A k \in DOMAIN jet_features.items :
            LET raw == RawJetRow(use_150, row.src[1], row.src[2])
            IN  /\ jet_features.items[k] = "num_particles" => row.val[k] <= args.num_particles
                /\ jet_features.items[k] = "pt" => row.val[k] = raw[1]
                /\ jet_features.items[k] = "eta" => row.val[k] = raw[2]
                /\ jet_features.items[k] = "mass" => row.val[k] = raw[3]

C6_Witness ==
    /\ pc = "done"
    /\ jet_features.items = jet_features_order
    /\ args.num_particles = 31
    /\ \E i \in DOMAIN jet_data.rows :
          /\ RawJetRow(use_150, jet_data.rows[i].src[1], jet_data.rows[i].src[2])[4] > 31
          /\ jet_data.rows[i].val[5] = 31
          /\ jet_data.rows[i].val[2] = 10 * ExampleId(jet_data.rows[i].src[1], jet_data.rows[i].src[2]) + 1
    /\ \E i \in DOMAIN jet_data.rows : jet_data.rows[i].val[5] < 31

\* C7: when getData fails because a requested feature name is not in the
\* canonical order, no file has been downloaded or read.
C7_UnknownFeatureBeforeIO ==
    (pc = "error" /\ error = "UnknownFeatureError") => ioLog = <<>>

\* the jet row getData is to return for an example: the channels
\* (ordinal, pt, eta, mass, clamped count) picked in the requested order
ExpectedJetVal(a, src) ==
    LET raw == RawJetRow(a.num_particles > 30, src[1], src[2])
        canon == <<Ordinal(src[1]), raw[1], raw[2], raw[3], Min2(raw[4], a.num_particles)>>
        names == a.jet_features.items
    IN  [k \in DOMAIN names |->
            canon[CHOOSE c \in 1..5 : jet_features_order[c] = names[k]]]

\* the number of examples in the files of the requested types
TotalRows(a) ==
    SumSeq([k \in DOMAIN jet_types |->
               IF jet_types[k] \in RequestedTypes(a) THEN files[jet_types[k]] ELSE 0])

\* the number of rows of the requested split
SplitRows(a, n) ==
    LET c0 == RoundCut(a.split_fraction[1], n)
        c1 == RoundCut(a.split_fraction[1] + a.split_fraction[2], n)
    IN  CASE a.split = "train" -> c0
          [] a.split = "valid" -> c1 - c0
          [] a.split = "test" -> n - c1
          [] a.split = "all" -> n

IndexRange(l, r) == {k \in 0..(r - 1) : k >= l}

\* the range the split step computes for a split name in the current call
RangeOf(name) == getSplitting(length, name, splits, args.split_fraction)

SameButSplit(a, b) ==
    /\ RequestedTypes(a) = RequestedTypes(b)
    /\ a.particle_features = b.particle_features
    /\ a.jet_features = b.jet_features
    /\ a.num_particles = b.num_particles
    /\ a.split_fraction = b.split_fraction
    /\ a.seed = b.seed

\* C2: a finished call and an earlier finished call of the same process that
\* agree in jet types, feature lists, num_particles, fractions and seed and
\* differ in the split name (among train, valid, test) return no example in
\* common.
C2_SplitsShareNoExample ==
    (pc = "done" /\ pin.taken /\ SameButSplit(args, pin.args) /\ args.split # pin.args.split)
        => Returned \cap pin.out = {}

C2_Witness ==
    /\ pc = "done"
    /\ pin.taken
    /\ SameButSplit(args, pin.args)
    /\ pin.args.split = "train"
    /\ args.split = "test"
    /\ args.jet_type # pin.args.jet_type
    /\ otherDraws > 0
    /\ Returned # {}
    /\ pin.out # {}

\* C4: a call that has drawn its permutation and an earlier finished call with
\* the same length and seed have the same permutation, and with the same
\* split name and fractions the same lcut and rcut, whatever the generator
\* state was when each began.
C4_ShuffleSplitDeterministic ==
    (pc \in {"slice", "done"} /\ pin.taken /\ length = pin.length /\ args.seed = pin.args.seed)
        => /\ randperm = pin.randperm
           /\ (args.split = pin.args.split /\ args.split_fraction = pin.args.split_fraction)
                 => (lcut = pin.lcut /\ rcut = pin.rcut)

C4_Witness ==
    /\ pc = "done"
    /\ pin.taken
    /\ length = pin.length
    /\ length = 6
    /\ args.seed = pin.args.seed
    /\ args.split = pin.args.split
    /\ args.split_fraction = pin.args.split_fraction
    /\ otherDraws > 0
    /\ \E k \in DOMAIN randperm : randperm[k] # k - 1

\* the jet types in the order their files were accessed
LoadOrder(log) == [k \in 1..(Len(log) \div 2) |-> log[2 * k].dname[1]]

====
